---- MODULE Spec2Model ----
(***************************************************************************)
(* A model of readcsvturbo: read_csv_head, read_csv_tail,                  *)
(* read_csv_headtail and read_csv_line_range, with the helpers that        *)
(* resolve the requested rows to physical line windows and hand them to    *)
(* the platform's line tools (sed, tail, PowerShell Select-Object).        *)
(*                                                                         *)
(* Text is modelled by the physical line numbers it holds: the string      *)
(* "line 3\nline 4" is the sequence <<3, 4>>, the empty string is << >>.   *)
(* Lines are non-blank, so str.strip() keeps every line of a block.        *)
(* The file is a text file of file_lines newline-terminated lines, so      *)
(* `wc -l` reports file_lines.                                             *)
(***************************************************************************)
EXTENDS Integers, Sequences, FiniteSets

(* ---- bounds of the model ---- *)
MaxLines == 4     \* files of 0..MaxLines physical lines
MaxSkip == 2      \* skip_n_first_rows in 0..MaxSkip
MaxRows == 3      \* row counts and start lines up to MaxRows + 1
NegRows == 2      \* row counts and start lines down to -NegRows

VARIABLES
    pc,             \* position of the calling thread
    op,             \* the public function called
    args,           \* its arguments, as passed by the caller
    platform,       \* platform.system(): "unix" or "win"
    path_exists,    \* os.path.isfile(path)
    file_lines,     \* physical lines of the file
    total_lines,    \* local total_lines of the read_csv_* function
    n_rows_head,    \* local n_rows_head of read_csv_headtail (reassigned)
    n_rows_tail,    \* local n_rows_tail of read_csv_headtail (reassigned)
    future_header,  \* state of the csv_header task of the executor
    future_head,    \* state of the csv_head task
    future_tail,    \* state of the csv_tail task
    header_str, head_str, tail_str, data_str,
    calls,          \* subprocess commands started so far
    status,         \* "none", "ok" or the exception raised to the caller
    io_failed,      \* a subprocess failed on its own (I/O, permissions)
    table           \* the DataFrame returned

vars == <<pc, op, args, platform, path_exists, file_lines, total_lines,
          n_rows_head, n_rows_tail, future_header, future_head, future_tail,
          header_str, head_str, tail_str, data_str, calls, status, io_failed,
          table>>

Ops == {"read_csv_head", "read_csv_tail", "read_csv_headtail", "read_csv_line_range"}
Platforms == {"unix", "win"}
Counts == (0 - NegRows)..(MaxRows + 1)

Min(a, b) == IF a <= b THEN a ELSE b
Max(a, b) == IF a >= b THEN a ELSE b

(* The text of the physical lines a..b (empty when a > b). *)
Lines(a, b) == [i \in 1..(b - a + 1) |-> a + i - 1]

(* str.strip() of a block of non-blank lines. *)
Strip(s) == s

(* ---- the line tools, by what they print for a file of file_lines lines ---- *)

(* sed -n 'a,bp' (GNU sed): lines a..b; when b < a, line a alone.  Address 0 *)
(* and negative addresses are rejected (exit status 1).                      *)
Sed(a, b) ==
    [ok  |-> a >= 1 /\ b >= 0,
     out |-> IF b < a THEN Lines(a, Min(a, file_lines))
                      ELSE Lines(a, Min(b, file_lines))]

(* tail -n +a | tail -n b: drop the first a-1 lines, keep the last b. *)
TailPipe(a, b) ==
    LET rest == Lines(Max(a, 1), file_lines)
        keep == Min(Max(b, 0), Len(rest))
    IN [ok  |-> TRUE,
        out |-> SubSeq(rest, Len(rest) - keep + 1, Len(rest))]

(* Get-Content | Select-Object -Skip a -First b: both are validated >= 0. *)
SelectFirst(a, b) ==
    [ok  |-> a >= 0 /\ b >= 0,
     out |-> Lines(a + 1, Min(a + b, file_lines))]

(* Get-Content | Select-Object -Skip a, then output[-b:] in Python (b > 0). *)
SelectSkipLast(a, b) ==
    LET rest == Lines(a + 1, file_lines)
        keep == Min(b, Len(rest))
    IN [ok  |-> a >= 0,
        out |-> SubSeq(rest, Len(rest) - keep + 1, Len(rest))]

Exec(cmd) ==
    CASE cmd.tool = "sed" -> Sed(cmd.a, cmd.b)
      [] cmd.tool = "tail" -> TailPipe(cmd.a, cmd.b)
      [] cmd.tool = "select_first" -> SelectFirst(cmd.a, cmd.b)
      [] cmd.tool = "select_skip" -> SelectSkipLast(cmd.a, cmd.b)

Cmd(fn, tool, a, b) == [fn |-> fn, tool |-> tool, a |-> a, b |-> b]

(* A helper's outcome: the command it starts (none when it returns early), *)
(* whether it raises, and the text it returns.                              *)
NoCmd == [cmds |-> {}, error |-> "none", out |-> << >>]
Run(cmd) ==
    [cmds |-> {cmd},
     error |-> IF Exec(cmd).ok THEN "none" ELSE "CalledProcessError",
     out |-> IF Exec(cmd).ok THEN Strip(Exec(cmd).out) ELSE << >>]
Raise(e) == [cmds |-> {}, error |-> e, out |-> << >>]

(* ---- the helpers ---- *)

(* Mutant: the header line is not counted among the lines to skip. *)
SkipLines_NoHeader(hdr, skip) == skip

SkipLines(hdr, skip) == skip + (IF hdr THEN 1 ELSE 0)

csv_header(skip) ==
    IF platform = "win"
    THEN Run(Cmd("csv_header", "select_first", skip, 1))
    ELSE Run(Cmd("csv_header", "sed", 1 + skip, 1 + skip))

(* Mutant: the requested head rows are not clamped to the available lines. *)
HeadRows_NoClamp(total, skip_lines, rows) == rows

HeadRows(total, skip_lines, rows) == Min(rows, total - skip_lines)

csv_head(total, hdr, skip, rows) ==
    LET skip_lines == SkipLines(hdr, skip)
        nr == HeadRows(total, skip_lines, rows)
        start_line == skip_lines + 1
        end_line == start_line + nr - 1
    IN IF nr <= 0 THEN NoCmd
       ELSE IF platform = "win"
            THEN Run(Cmd("csv_head", "select_first", skip_lines, nr))
            ELSE Run(Cmd("csv_head", "sed", start_line, end_line))

TailRows(total, skip_lines, rows) == Min(rows, total - skip_lines)

(* Mutant: csv_tail without its early return for n_rows <= 0. *)
csv_tail_NoEarlyReturn(total, hdr, skip, rows) ==
    LET skip_lines == SkipLines(hdr, skip)
        nr == TailRows(total, skip_lines, rows)
    IN IF platform = "win"
       THEN Run(Cmd("csv_tail", "select_skip", skip_lines, nr))
       ELSE Run(Cmd("csv_tail", "tail", skip_lines + 1, nr))

csv_tail(total, hdr, skip, rows) ==
    LET skip_lines == SkipLines(hdr, skip)
        nr == TailRows(total, skip_lines, rows)
    IN IF nr <= 0 THEN NoCmd
       ELSE IF platform = "win"
            THEN Run(Cmd("csv_tail", "select_skip", skip_lines, nr))
            ELSE Run(Cmd("csv_tail", "tail", skip_lines + 1, nr))

(* Mutant: the last data line is rejected as a start line. *)
InvalidStart_OffByOne(nn, available_lines) == nn < 1 \/ nn >= available_lines

InvalidStart(nn, available_lines) == nn < 1 \/ nn > available_lines

(* Mutant: rows_after_n is not clamped to the lines left after line n. *)
RowsAfter_NoClamp(after, available_lines, nn) == after

RowsAfter(after, available_lines, nn) == Min(after, available_lines - nn)

csv_line_range(total, nn, after, hdr, skip) ==
    LET skip_lines == SkipLines(hdr, skip)
        available_lines == total - skip_lines
        rows_after == RowsAfter(after, available_lines, nn)
        num_lines == rows_after + 1
        start_file_line == skip_lines + nn
        end_file_line == start_file_line + rows_after
    IN IF InvalidStart(nn, available_lines) THEN Raise("ValueError")
       ELSE IF platform = "win"
            THEN Run(Cmd("csv_line_range", "select_first", start_file_line - 1, num_lines))
            ELSE Run(Cmd("csv_line_range", "sed", start_file_line, end_file_line))

(* Mutant: a header without data is read with header=None, as a data row. *)
parse_csv_content_HeaderAsRow(hs, ds, hdr) ==
    IF hdr /\ Strip(hs) # << >> /\ Strip(ds) = << >>
    THEN [columns |-> << >>, rows |-> Strip(hs)]
    ELSE [columns |-> (IF hdr THEN Strip(hs) ELSE << >>), rows |-> Strip(ds)]

(* The DataFrame built from the two texts: its column line and its rows. *)
parse_csv_content(hs, ds, hdr) ==
    IF hdr
    THEN IF Strip(hs) = << >>
         THEN IF Strip(ds) = << >>
              THEN [columns |-> << >>, rows |-> << >>]
              ELSE [columns |-> << >>, rows |-> Strip(ds)]
         ELSE IF Strip(ds) = << >>
              THEN [columns |-> Strip(hs), rows |-> << >>]
              ELSE [columns |-> Strip(hs), rows |-> Strip(ds)]
    ELSE IF Strip(ds) = << >>
         THEN [columns |-> << >>, rows |-> << >>]
         ELSE [columns |-> << >>, rows |-> Strip(ds)]

(* Mutant: the overlap is computed but the tail is not reduced by it. *)
HeadTailRows_NoCut(h, t, available_lines) ==
    <<Min(h, available_lines), Min(t, available_lines)>>

(* Mutant: the tail is reduced by the overlap also when there is none. *)
HeadTailRows_AlwaysCut(h, t, available_lines) ==
    LET hh == Min(h, available_lines)
        tt == Min(t, available_lines)
        overlap == hh + tt - available_lines
    IN <<hh, tt - overlap>>

(* Mutant: the overlap is one too large (an off-by-one in the cut). *)
HeadTailRows_CutTooMuch(h, t, available_lines) ==
    LET hh == Min(h, available_lines)
        tt == Min(t, available_lines)
        overlap == hh + tt - available_lines + 1
    IN <<hh, IF overlap > 0 THEN tt - overlap ELSE tt>>

(* n_rows_head and n_rows_tail of read_csv_headtail after the overlap cut. *)
HeadTailRows(h, t, available_lines) ==
    LET hh == Min(h, available_lines)
        tt == Min(t, available_lines)
        overlap == hh + tt - available_lines
    IN <<hh, IF overlap > 0 THEN tt - overlap ELSE tt>>

NoTable == [columns |-> << >>, rows |-> << >>]

(* ---- the state machine ---- *)

DefaultArgs ==
    [header |-> TRUE, skip_n_first_rows |-> 0, n_rows |-> 1,
     n_rows_head |-> 1, n_rows_tail |-> 1, n |-> 1, rows_after_n |-> 0]

Init ==
    /\ pc = "idle"
    /\ op = "read_csv_head"
    /\ args = DefaultArgs
    /\ platform = "unix"
    /\ path_exists = TRUE
    /\ file_lines = 0
    /\ total_lines = 0
    /\ n_rows_head = 1
    /\ n_rows_tail = 1
    /\ future_header = "none"
    /\ future_head = "none"
    /\ future_tail = "none"
    /\ header_str = << >>
    /\ head_str = << >>
    /\ tail_str = << >>
    /\ data_str = << >>
    /\ calls = {}
    /\ status = "none"
    /\ io_failed = FALSE
    /\ table = NoTable

Reset ==
    /\ total_lines' = 0
    /\ n_rows_head' = 1
    /\ n_rows_tail' = 1
    /\ future_header' = "none"
    /\ future_head' = "none"
    /\ future_tail' = "none"
    /\ header_str' = << >>
    /\ head_str' = << >>
    /\ tail_str' = << >>
    /\ data_str' = << >>
    /\ calls' = {}
    /\ status' = "none"
    /\ io_failed' = FALSE
    /\ table' = NoTable

(* A caller invokes one of the four public functions on some file. *)
Call ==
    /\ pc = "idle"
    /\ pc' = "check"
    /\ op' \in Ops
    /\ platform' \in Platforms
    /\ path_exists' \in BOOLEAN
    /\ file_lines' \in 0..MaxLines
    /\ \E hdr \in BOOLEAN, skip \in 0..MaxSkip, r1 \in Counts, r2 \in Counts :
         args' = CASE op' = "read_csv_head" ->
                        [DefaultArgs EXCEPT !.header = hdr, !.skip_n_first_rows = skip,
                                            !.n_rows = r1]
                   [] op' = "read_csv_tail" ->
                        [DefaultArgs EXCEPT !.header = hdr, !.skip_n_first_rows = skip,
                                            !.n_rows = r1]
                   [] op' = "read_csv_headtail" ->
                        [DefaultArgs EXCEPT !.header = hdr, !.skip_n_first_rows = skip,
                                            !.n_rows_head = r1, !.n_rows_tail = r2]
                   [] op' = "read_csv_line_range" ->
                        [DefaultArgs EXCEPT !.header = hdr, !.skip_n_first_rows = skip,
                                            !.n = r1, !.rows_after_n = r2]
    /\ Reset

(* Mutant: a file existence check that lets every path through. *)
CheckFileExists_Missing ==
    /\ pc = "check"
    /\ pc' = "count"
    /\ UNCHANGED <<op, args, platform, path_exists, file_lines, total_lines,
                   n_rows_head, n_rows_tail, future_header, future_head, future_tail,
                   header_str, head_str, tail_str, data_str, calls, status, table,
                   io_failed>>

(* check_file_exists(path) *)
CheckFileExists ==
    /\ pc = "check"
    /\ IF path_exists
       THEN pc' = "count" /\ status' = status
       ELSE pc' = "done" /\ status' = "FileNotFoundError"
    /\ UNCHANGED <<op, args, platform, path_exists, file_lines, total_lines,
                   n_rows_head, n_rows_tail, future_header, future_head, future_tail,
                   header_str, head_str, tail_str, data_str, calls, table, io_failed>>

AfterCount ==
    CASE op = "read_csv_head" -> "csv_head"
      [] op = "read_csv_tail" -> "csv_tail"
      [] op = "read_csv_headtail" -> "resolve"
      [] op = "read_csv_line_range" -> "csv_line_range"

(* total_lines = get_total_lines(path): wc -l, or Measure-Object -Line. *)
GetTotalLines ==
    /\ pc = "count"
    /\ calls' = calls \cup {Cmd("get_total_lines", "count", 0, 0)}
    /\ \E io \in BOOLEAN :
         /\ io_failed' = ~io
         /\ IF io
            THEN /\ total_lines' = file_lines
                 /\ pc' = AfterCount
                 /\ status' = status
            ELSE /\ total_lines' = total_lines
                 /\ pc' = "done"
                 /\ status' = "CalledProcessError"
    /\ UNCHANGED <<op, args, platform, path_exists, file_lines,
                   n_rows_head, n_rows_tail, future_header, future_head, future_tail,
                   header_str, head_str, tail_str, data_str, table>>

(* The outcome of a helper whose subprocess may also fail on its own (I/O). *)
(* subprocess.check_output raises CalledProcessError on a non-zero exit.    *)
(* In the Unix pipeline of csv_tail the process that reads the file is      *)
(* started with Popen and its exit status is never looked at: when it fails *)
(* the second tail reads an empty pipe, exits 0, and the text is ''.        *)
Outcome(r, io) ==
    IF r.cmds # {} /\ ~io
    THEN IF \E c \in r.cmds : c.tool = "tail"
         THEN [cmds |-> r.cmds, error |-> "none", out |-> << >>]
         ELSE [cmds |-> r.cmds, error |-> "CalledProcessError", out |-> << >>]
    ELSE r

(* data_str = csv_head(...) / csv_tail(...) / csv_line_range(...) *)
FetchData(at, r) ==
    /\ pc = at
    /\ \E io \in BOOLEAN :
         LET o == Outcome(r, io)
         IN /\ calls' = calls \cup o.cmds
            /\ io_failed' = (io_failed \/ (o.cmds # {} /\ ~io))
            /\ data_str' = o.out
            /\ IF o.error = "none"
               THEN pc' = "csv_header" /\ status' = status
               ELSE pc' = "done" /\ status' = o.error
    /\ UNCHANGED <<op, args, platform, path_exists, file_lines, total_lines,
                   n_rows_head, n_rows_tail, future_header, future_head, future_tail,
                   header_str, head_str, tail_str, table>>

CsvHead ==
    FetchData("csv_head",
              csv_head(total_lines, args.header, args.skip_n_first_rows, args.n_rows))

CsvTail ==
    FetchData("csv_tail",
              csv_tail(total_lines, args.header, args.skip_n_first_rows, args.n_rows))

CsvLineRange ==
    FetchData("csv_line_range",
              csv_line_range(total_lines, args.n, args.rows_after_n, args.header,
                             args.skip_n_first_rows))

(* Mutant: the header is fetched only when there is data to go with it. *)
CsvHeader_OnlyWithData ==
    /\ pc = "csv_header"
    /\ \E io \in BOOLEAN :
         LET o == IF args.header /\ data_str # << >>
                  THEN Outcome(csv_header(args.skip_n_first_rows), io)
                  ELSE NoCmd
         IN /\ calls' = calls \cup o.cmds
            /\ io_failed' = (io_failed \/ (o.cmds # {} /\ ~io))
            /\ header_str' = o.out
            /\ IF o.error = "none"
               THEN pc' = "parse" /\ status' = status
               ELSE pc' = "done" /\ status' = o.error
    /\ UNCHANGED <<op, args, platform, path_exists, file_lines, total_lines,
                   n_rows_head, n_rows_tail, future_header, future_head, future_tail,
                   head_str, tail_str, data_str, table>>

(* header_str = csv_header(path, skip_n_first_rows) if header else '' *)
CsvHeader ==
    /\ pc = "csv_header"
    /\ \E io \in BOOLEAN :
         LET o == IF args.header THEN Outcome(csv_header(args.skip_n_first_rows), io)
                                 ELSE NoCmd
         IN /\ calls' = calls \cup o.cmds
            /\ io_failed' = (io_failed \/ (o.cmds # {} /\ ~io))
            /\ header_str' = o.out
            /\ IF o.error = "none"
               THEN pc' = "parse" /\ status' = status
               ELSE pc' = "done" /\ status' = o.error
    /\ UNCHANGED <<op, args, platform, path_exists, file_lines, total_lines,
                   n_rows_head, n_rows_tail, future_header, future_head, future_tail,
                   head_str, tail_str, data_str, table>>

(* return parse_csv_content(header_str, data_str, header=header) *)
ParseCsvContent ==
    /\ pc = "parse"
    /\ table' = parse_csv_content(header_str, data_str, args.header)
    /\ status' = "ok"
    /\ pc' = "done"
    /\ UNCHANGED <<op, args, platform, path_exists, file_lines, total_lines,
                   n_rows_head, n_rows_tail, future_header, future_head, future_tail,
                   header_str, head_str, tail_str, data_str, calls, io_failed>>

(* read_csv_headtail, lines 269-292: the early return path when no data   *)
(* line is available, else the row counts and the three submitted tasks.  *)
Resolve ==
    /\ pc = "resolve"
    /\ LET skip_lines == SkipLines(args.header, args.skip_n_first_rows)
           available_lines == total_lines - skip_lines
           rows == HeadTailRows(args.n_rows_head, args.n_rows_tail, available_lines)
       IN IF available_lines <= 0
          THEN /\ pc' = "csv_header"
               /\ UNCHANGED <<n_rows_head, n_rows_tail, future_header, future_head,
                              future_tail>>
          ELSE /\ pc' = "result_header"
               /\ n_rows_head' = rows[1]
               /\ n_rows_tail' = rows[2]
               /\ future_header' = IF args.header THEN "pending" ELSE "none"
               /\ future_head' = "pending"
               /\ future_tail' = "pending"
    /\ UNCHANGED <<op, args, platform, path_exists, file_lines, total_lines,
                   header_str, head_str, tail_str, data_str, calls, status, table, io_failed>>

Finished(o) == IF o.error = "none" THEN "done" ELSE "failed"

(* A worker thread runs csv_header(path, skip_n_first_rows). *)
RunHeader ==
    /\ future_header = "pending"
    /\ \E io \in BOOLEAN :
         LET o == Outcome(csv_header(args.skip_n_first_rows), io)
         IN /\ calls' = calls \cup o.cmds
            /\ io_failed' = (io_failed \/ (o.cmds # {} /\ ~io))
            /\ header_str' = o.out
            /\ future_header' = Finished(o)
    /\ UNCHANGED <<pc, op, args, platform, path_exists, file_lines, total_lines,
                   n_rows_head, n_rows_tail, future_head, future_tail,
                   head_str, tail_str, data_str, status, table>>

(* A worker thread runs csv_head(path, total_lines, header, skip, n_rows_head). *)
RunHead ==
    /\ future_head = "pending"
    /\ \E io \in BOOLEAN :
         LET o == Outcome(csv_head(total_lines, args.header, args.skip_n_first_rows,
                                   n_rows_head), io)
         IN /\ calls' = calls \cup o.cmds
            /\ io_failed' = (io_failed \/ (o.cmds # {} /\ ~io))
            /\ head_str' = o.out
            /\ future_head' = Finished(o)
    /\ UNCHANGED <<pc, op, args, platform, path_exists, file_lines, total_lines,
                   n_rows_head, n_rows_tail, future_header, future_tail,
                   header_str, tail_str, data_str, status, table>>

(* A worker thread runs csv_tail(path, total_lines, header, skip, n_rows_tail). *)
RunTail ==
    /\ future_tail = "pending"
    /\ \E io \in BOOLEAN :
         LET o == Outcome(csv_tail(total_lines, args.header, args.skip_n_first_rows,
                                   n_rows_tail), io)
         IN /\ calls' = calls \cup o.cmds
            /\ io_failed' = (io_failed \/ (o.cmds # {} /\ ~io))
            /\ tail_str' = o.out
            /\ future_tail' = Finished(o)
    /\ UNCHANGED <<pc, op, args, platform, path_exists, file_lines, total_lines,
                   n_rows_head, n_rows_tail, future_header, future_head,
                   header_str, head_str, data_str, status, table>>

(* future.result(): blocks until the task has finished, re-raises its error, *)
(* which leaves the with block through the executor's shutdown.              *)
Result(at, future, wanted, next) ==
    /\ pc = at
    /\ ~wanted \/ future # "pending"
    /\ IF wanted /\ future = "failed"
       THEN pc' = "shutdown" /\ status' = "CalledProcessError"
       ELSE pc' = next /\ status' = status
    /\ UNCHANGED <<op, args, platform, path_exists, file_lines, total_lines,
                   n_rows_head, n_rows_tail, future_header, future_head, future_tail,
                   header_str, head_str, tail_str, data_str, calls, table, io_failed>>

(* header_str = future_header.result() if future_header else '' *)
ResultHeader == Result("result_header", future_header, future_header # "none", "result_head")

(* head_str = future_head.result() *)
ResultHead == Result("result_head", future_head, TRUE, "result_tail")

(* tail_str = future_tail.result() if n_rows_tail > 0 else '' *)
ResultTail == Result("result_tail", future_tail, n_rows_tail > 0, "shutdown")

(* Leaving the with block: ThreadPoolExecutor.__exit__ waits for every task. *)
Shutdown ==
    /\ pc = "shutdown"
    /\ future_header # "pending" /\ future_head # "pending" /\ future_tail # "pending"
    /\ pc' = IF status = "none" THEN "combine" ELSE "done"
    /\ UNCHANGED <<op, args, platform, path_exists, file_lines, total_lines,
                   n_rows_head, n_rows_tail, future_header, future_head, future_tail,
                   header_str, head_str, tail_str, data_str, calls, status, table, io_failed>>

(* Mutant: the two blocks are joined in the wrong order. *)
Join_TailFirst(head, tail) == Strip(tail) \o Strip(head)

(* '\n'.join(filter(None, [head, tail])): the non-empty blocks, in order. *)
Join(head, tail) == Strip(head) \o Strip(tail)

(* read_csv_headtail, lines 298-301. *)
Combine ==
    /\ pc = "combine"
    /\ data_str' = Join(head_str, IF n_rows_tail > 0 THEN tail_str ELSE << >>)
    /\ table' = parse_csv_content(header_str, data_str', args.header)
    /\ status' = "ok"
    /\ pc' = "done"
    /\ UNCHANGED <<op, args, platform, path_exists, file_lines, total_lines,
                   n_rows_head, n_rows_tail, future_header, future_head, future_tail,
                   header_str, head_str, tail_str, calls, io_failed>>

(* The call has returned or raised; the caller may call again. *)
Return ==
    /\ pc = "done"
    /\ pc' = "idle"
    /\ op' = "read_csv_head"
    /\ args' = DefaultArgs
    /\ platform' = "unix"
    /\ path_exists' = TRUE
    /\ file_lines' = 0
    /\ Reset

Next ==
    \/ Call
    \/ CheckFileExists
    \/ GetTotalLines
    \/ CsvHead
    \/ CsvTail
    \/ CsvLineRange
    \/ CsvHeader
    \/ ParseCsvContent
    \/ Resolve
    \/ RunHeader
    \/ RunHead
    \/ RunTail
    \/ ResultHeader
    \/ ResultHead
    \/ ResultTail
    \/ Shutdown
    \/ Combine
    \/ Return

Spec == Init /\ [][Next]_vars

(* ======================= the claims ======================= *)

(* What the claims speak of, in the spec's terms. *)
Skip == args.skip_n_first_rows + (IF args.header THEN 1 ELSE 0)
Available == file_lines - Skip
CallsOf(fn) == {c \in calls : c.fn = fn}
Increasing(s) == \A i \in 1..(Len(s) - 1) : s[i] < s[i + 1]

(* The physical window <<start, end>> a command asks its tool for. *)
Window(c) ==
    CASE c.tool = "sed" -> <<c.a, c.b>>
      [] c.tool = "select_first" -> <<c.a + 1, c.a + c.b>>
      [] c.tool = "tail" -> <<Max(c.a, file_lines - c.b + 1), file_lines>>
      [] c.tool = "select_skip" -> <<Max(c.a + 1, file_lines - c.b + 1), file_lines>>

(* C1: in read_csv_headtail the head and the tail windows never share a     *)
(* physical line: the head keeps all its rows (the first min(n_rows_head,   *)
(* available) data lines), the tail is what gets shortened, the head block  *)
(* ends strictly before the tail block starts, and no data line is fetched  *)
(* or returned twice.                                                       *)
C1_HeadTailDisjoint ==
    (op = "read_csv_headtail" /\ Available > 0) =>
        /\ \A c \in CallsOf("csv_head"), d \in CallsOf("csv_tail") :
               Window(c)[2] < Window(d)[1]
        /\ future_head = "done" =>
               head_str = Lines(Skip + 1, Skip + Min(args.n_rows_head, Available))
        /\ (future_head = "done" /\ future_tail = "done") =>
               \A i \in 1..Len(head_str), j \in 1..Len(tail_str) :
                   head_str[i] < tail_str[j]
        /\ (pc = "done" /\ status = "ok") =>
               /\ Increasing(table.rows)
               /\ table.rows = head_str \o tail_str

C1_Witness ==
    /\ op = "read_csv_headtail"
    /\ pc = "done"
    /\ status = "ok"
    /\ args.n_rows_head + args.n_rows_tail > Available
    /\ head_str # << >>
    /\ tail_str # << >>
    /\ Len(tail_str) < args.n_rows_tail

(* C2 as stated: the number of data rows read_csv_headtail returns is       *)
(* min(head_n, available) + min(tail_n, available - min(head_n, available)) *)
(* for all head_n, tail_n and available; stated here for the requests >= 0  *)
(* alone, which the statement over all requests implies.                    *)
C2_Original ==
    (op = "read_csv_headtail" /\ pc = "done" /\ status = "ok" /\ ~io_failed
       /\ args.n_rows_head >= 0 /\ args.n_rows_tail >= 0) =>
        Len(table.rows) =
            Min(args.n_rows_head, Available)
            + Min(args.n_rows_tail, Available - Min(args.n_rows_head, Available))

(* C2 as amended: the formula holds with head_n, tail_n and available each  *)
(* taken as 0 when negative.                                                *)
C2_RowCount ==
    (op = "read_csv_headtail" /\ pc = "done" /\ status = "ok" /\ ~io_failed) =>
        LET h == Max(args.n_rows_head, 0)
            t == Max(args.n_rows_tail, 0)
            a == Max(Available, 0)
        IN Len(table.rows) = Min(h, a) + Min(t, a - Min(h, a))

C2_Witness ==
    /\ op = "read_csv_headtail"
    /\ pc = "done"
    /\ status = "ok"
    /\ args.n_rows_head > 0
    /\ args.n_rows_tail > Available - args.n_rows_head
    /\ Available > args.n_rows_head
    /\ Len(table.rows) = Available

(* C3: read_csv_head resolves n = min(n_rows, FileLineCount - skip); when   *)
(* n <= 0 the data is empty and no data extraction is started, otherwise    *)
(* exactly the physical lines skip+1 .. skip+n are asked for and returned.  *)
C3_HeadWindow ==
    op = "read_csv_head" =>
        LET nn == Min(args.n_rows, file_lines - Skip)
        IN /\ nn <= 0 => CallsOf("csv_head") = {}
           /\ \A c \in CallsOf("csv_head") : Window(c) = <<Skip + 1, Skip + nn>>
           /\ (pc \in {"csv_header", "parse"} \/ (pc = "done" /\ status = "ok")) =>
                 /\ data_str = (IF nn <= 0 THEN << >> ELSE Lines(Skip + 1, Skip + nn))
                 /\ nn > 0 => CallsOf("csv_head") # {}
           /\ (pc = "done" /\ status = "ok") => table.rows = data_str

C3_Witness ==
    /\ op = "read_csv_head"
    /\ pc = "done"
    /\ status = "ok"
    /\ args.n_rows > file_lines - Skip
    /\ args.skip_n_first_rows > 0
    /\ Len(table.rows) > 1

(* C4: read_csv_tail resolves n = min(n_rows, FileLineCount - skip); when   *)
(* n <= 0 the data is empty, otherwise the lines returned are exactly the   *)
(* physical lines FileLineCount-n+1 .. FileLineCount, none of them a header *)
(* or skipped line.                                                         *)
C4_TailWindow ==
    (op = "read_csv_tail" /\ ~io_failed
       /\ (pc \in {"csv_header", "parse"} \/ (pc = "done" /\ status = "ok"))) =>
        LET nn == Min(args.n_rows, file_lines - Skip)
        IN /\ data_str = (IF nn <= 0 THEN << >>
                          ELSE Lines(file_lines - nn + 1, file_lines))
           /\ \A i \in 1..Len(data_str) : data_str[i] > Skip
           /\ (pc = "done" /\ status = "ok") => table.rows = data_str

C4_Witness ==
    /\ op = "read_csv_tail"
    /\ pc = "done"
    /\ status = "ok"
    /\ args.header
    /\ args.skip_n_first_rows > 0
    /\ args.n_rows > file_lines - Skip
    /\ Len(table.rows) > 1

(* C5: read_csv_line_range raises ValueError exactly when n < 1 or          *)
(* n > available; the start line is never clamped, and no line is extracted *)
(* when the error is raised.                                                *)
C5_InvalidStart ==
    op = "read_csv_line_range" =>
        LET invalid == args.n < 1 \/ args.n > Available
        IN /\ status = "ValueError" =>
                 invalid /\ pc = "done" /\ calls = CallsOf("get_total_lines")
           /\ invalid =>
                 /\ calls = CallsOf("get_total_lines")
                 /\ pc \notin {"csv_header", "parse"}
                 /\ status # "ok"
                 /\ (pc = "done" /\ path_exists /\ ~io_failed) => status = "ValueError"
           /\ \A c \in CallsOf("csv_line_range") : Window(c)[1] = Skip + args.n

C5_Witness ==
    /\ op = "read_csv_line_range"
    /\ pc = "done"
    /\ status = "ValueError"
    /\ args.n = Available + 1
    /\ Available > 0

DataFetched == pc \in {"csv_header", "parse"} \/ (pc = "done" /\ status = "ok")
ValidStart == 1 <= args.n /\ args.n <= Available

(* C6 as stated: for a valid start line n, a negative rows_after_n is zero  *)
(* extra rows: read_csv_line_range asks the extractor for exactly one line, *)
(* the window skip+n .. skip+n, and returns exactly the data line n.        *)
C6_NegativeRowsAfter ==
    (op = "read_csv_line_range" /\ ValidStart /\ args.rows_after_n < 0) =>
        /\ \A c \in CallsOf("csv_line_range") :
               Window(c) = <<Skip + args.n, Skip + args.n>>
        /\ DataFetched => data_str = <<Skip + args.n>>
        /\ (pc = "done" /\ path_exists /\ ~io_failed) =>
               (status = "ok" /\ table.rows = <<Skip + args.n>>)

(* C7: for a valid start line n and rows_after_n >= 0, read_csv_line_range  *)
(* extracts exactly the physical lines start = skip+n to                    *)
(* end = start + min(rows_after_n, available - n); when rows_after_n        *)
(* exceeds the rows left after n, the window ends at the file's last line.  *)
C7_LineRangeWindow ==
    (op = "read_csv_line_range" /\ ValidStart /\ args.rows_after_n >= 0) =>
        LET start == Skip + args.n
            end == start + Min(args.rows_after_n, Available - args.n)
        IN /\ \A c \in CallsOf("csv_line_range") : Window(c) = <<start, end>>
           /\ DataFetched =>
                 /\ CallsOf("csv_line_range") # {}
                 /\ data_str = Lines(start, end)
                 /\ args.rows_after_n > Available - args.n =>
                        data_str[Len(data_str)] = file_lines
           /\ (pc = "done" /\ path_exists /\ ~io_failed) =>
                 (status = "ok" /\ table.rows = Lines(start, end))

C7_Witness ==
    /\ op = "read_csv_line_range"
    /\ pc = "done"
    /\ status = "ok"
    /\ args.n > 1
    /\ args.rows_after_n > Available - args.n
    /\ Len(table.rows) > 1
    /\ args.skip_n_first_rows > 0

(* C8 as stated: whenever available <= 0, each of the four operations       *)
(* returns a successful empty table with no data rows and does not raise    *)
(* (the file exists and no subprocess fails on its own; stated for the      *)
(* start lines n >= 1 alone, which the statement over all n implies).       *)
C8_Original ==
    (Available <= 0 /\ pc = "done" /\ path_exists /\ ~io_failed /\ args.n >= 1) =>
        (status = "ok" /\ table.rows = << >>)

(* With available <= 0 the three clamping operations start no data         *)
(* extraction and return the header line alone, or the empty table.         *)
C8_EmptyWhenNoData ==
    (Available <= 0 /\ op # "read_csv_line_range") =>
        /\ CallsOf("csv_head") = {}
        /\ CallsOf("csv_tail") = {}
        /\ (pc = "done" /\ path_exists /\ ~io_failed) =>
              /\ status = "ok"
              /\ table.rows = << >>
              /\ table.columns =
                     (IF args.header /\ file_lines > args.skip_n_first_rows
                      THEN <<args.skip_n_first_rows + 1>> ELSE << >>)

(* With available <= 0 no start line is valid. *)
C8_LineRangeRaises ==
    (Available <= 0 /\ op = "read_csv_line_range"
       /\ pc = "done" /\ path_exists /\ ~io_failed) =>
        (status = "ValueError" /\ table.rows = << >>)

(* C8 as amended: whenever available <= 0, read_csv_head, read_csv_tail and *)
(* read_csv_headtail return a successful table with no data rows (the       *)
(* header line alone when there is one) and do not raise, and no data       *)
(* extraction is started; read_csv_line_range raises ValueError for every n.*)
C8_Amended == C8_EmptyWhenNoData /\ C8_LineRangeRaises

C8_Witness ==
    /\ op = "read_csv_tail"
    /\ pc = "done"
    /\ status = "ok"
    /\ Available <= 0
    /\ args.n_rows > 0
    /\ table.columns # << >>
    /\ table.rows = << >>

(* C9 as stated: every data window handed to the extractor by any of the    *)
(* four resolvers satisfies 1 <= start <= end <= FileLineCount, for all     *)
(* inputs with skip_n_first_rows >= 0, negative row counts and negative     *)
(* rows_after_n included.                                                   *)
C9_WindowInvariant ==
    \A c \in calls :
        c.fn \in {"csv_head", "csv_tail", "csv_line_range"} =>
            /\ 1 <= Window(c)[1]
            /\ Window(c)[1] <= Window(c)[2]
            /\ Window(c)[2] <= file_lines

(* The rows a command asks its tool for. *)
Rows(c) == IF c.tool = "sed" THEN c.b - c.a + 1 ELSE c.b

(* The resolved row count of a helper: the rows it asks for, 0 when it      *)
(* returns the empty window without a command.                              *)
Within(fn, requested) ==
    \A c \in CallsOf(fn) : 0 <= Rows(c) /\ Rows(c) <= requested

(* C10 as stated: for all resolvers, 0 <= resolved_row_count <=             *)
(* requested_row_count (stated for read_csv_head once its data is resolved: *)
(* the rows returned are at most the rows requested).                       *)
C10_Original ==
    (op = "read_csv_head" /\ DataFetched) =>
        (0 <= Len(data_str) /\ Len(data_str) <= args.n_rows)

(* C10 as amended: whenever the requested row count is >= 0 (n_rows,        *)
(* n_rows_head, n_rows_tail >= 0; rows_after_n >= 0, which requests         *)
(* rows_after_n + 1 rows), 0 <= resolved_row_count <= requested_row_count,  *)
(* the resolved count being the rows asked of the extractor (0 when none    *)
(* are asked) and the rows returned.                                        *)
C10_ResolvedWithinRequested ==
    /\ (op = "read_csv_head" /\ args.n_rows >= 0) =>
          /\ Within("csv_head", args.n_rows)
          /\ Len(data_str) <= args.n_rows
    /\ (op = "read_csv_tail" /\ args.n_rows >= 0) =>
          /\ Within("csv_tail", args.n_rows)
          /\ Len(data_str) <= args.n_rows
    /\ (op = "read_csv_headtail" /\ args.n_rows_head >= 0) =>
          /\ Within("csv_head", args.n_rows_head)
          /\ Len(head_str) <= args.n_rows_head
          /\ future_head # "none" =>
                (0 <= n_rows_head /\ n_rows_head <= args.n_rows_head)
    /\ (op = "read_csv_headtail" /\ args.n_rows_tail >= 0) =>
          /\ Within("csv_tail", args.n_rows_tail)
          /\ Len(tail_str) <= args.n_rows_tail
          /\ future_tail # "none" =>
                (0 <= n_rows_tail /\ n_rows_tail <= args.n_rows_tail)
    /\ (op = "read_csv_line_range" /\ args.rows_after_n >= 0) =>
          /\ Within("csv_line_range", args.rows_after_n + 1)
          /\ Len(data_str) <= args.rows_after_n + 1

C10_Witness ==
    /\ op = "read_csv_headtail"
    /\ pc = "done"
    /\ status = "ok"
    /\ args.n_rows_head >= Available
    /\ args.n_rows_tail > 0
    /\ n_rows_tail = 0
    /\ Len(head_str) = Available
    /\ Available > 1

(* C11: in all four operations the file existence check comes first: when   *)
(* the path is no existing regular file the operation fails with            *)
(* FileNotFoundError, and no line count, header fetch or line extraction    *)
(* has been started (no command run, no task submitted); nothing is started *)
(* before the check has passed, and the error is raised for no other cause. *)
C11_ExistenceCheckedFirst ==
    /\ (pc # "idle" /\ ~path_exists) =>
          /\ pc \in {"check", "done"}
          /\ calls = {}
          /\ future_header = "none" /\ future_head = "none" /\ future_tail = "none"
          /\ pc = "done" => (status = "FileNotFoundError" /\ table = NoTable)
    /\ pc = "check" => (calls = {} /\ status = "none")
    /\ status = "FileNotFoundError" => (~path_exists /\ pc = "done")

C11_Witness ==
    /\ op = "read_csv_headtail"
    /\ ~path_exists
    /\ pc = "done"
    /\ status = "FileNotFoundError"
    /\ calls = {}

(* C12 as stated: if the line count or any line extraction (header, head,   *)
(* tail or line range) fails, the operation raises that failure to its      *)
(* caller: it never returns a table, empty or partial, after a failure.     *)
C12_FailuresPropagate ==
    io_failed =>
        /\ status # "ok"
        /\ table = NoTable
        /\ pc \notin {"parse", "combine"}
        /\ pc = "done" => status = "CalledProcessError"

(* The tasks of read_csv_headtail have been submitted. *)
Submitted == op = "read_csv_headtail" /\ future_head # "none"

(* C13: in read_csv_headtail the header, head and tail fetches start and    *)
(* complete in any interleaving, and the assembled result is the one of a   *)
(* sequential run: the data text is the head block followed by the tail     *)
(* block (empty parts omitted), paired with the header text, each the same  *)
(* function of the arguments whatever the order; and the result is          *)
(* assembled only after all three fetches have finished.                    *)
C13_AssemblyAfterFetches ==
    Submitted =>
        /\ (pc = "combine" \/ (pc = "done" /\ status = "ok")) =>
              /\ future_header \in {"none", "done"}
              /\ future_head = "done"
              /\ future_tail = "done"
        /\ pc # "done" => (table = NoTable /\ data_str = << >>)
        /\ (pc = "done" /\ status = "ok") =>
              /\ data_str = head_str \o tail_str
              /\ table.rows = data_str
              /\ table.columns = header_str
              /\ ~io_failed =>
                    LET hh == Max(Min(args.n_rows_head, Available), 0)
                        tt == Min(Max(args.n_rows_tail, 0), Available - hh)
                    IN /\ header_str = (IF args.header
                                        THEN <<args.skip_n_first_rows + 1>>
                                        ELSE << >>)
                       /\ head_str = Lines(Skip + 1, Skip + hh)
                       /\ tail_str = Lines(file_lines - tt + 1, file_lines)

(* The tail fetch has completed while the other two have not. *)
C13_Witness ==
    /\ Submitted
    /\ pc = "result_header"
    /\ future_header = "pending"
    /\ future_head = "pending"
    /\ future_tail = "done"
    /\ tail_str # << >>
    /\ n_rows_head > 0

(* C14: in read_csv_headtail a part whose resolved row count is 0 (the tail *)
(* after the overlap cut, or the head) is not extracted: the extractor is   *)
(* invoked only for the parts with a resolved row count > 0, for exactly    *)
(* that many rows, and the omitted part adds nothing to the data text.      *)
C14_EmptyPartNotFetched ==
    op = "read_csv_headtail" =>
        LET avail == Max(Available, 0)
            hh == Max(Min(args.n_rows_head, avail), 0)
            tt == Min(Max(args.n_rows_tail, 0), avail - hh)
        IN /\ hh = 0 => (CallsOf("csv_head") = {} /\ head_str = << >>)
           /\ tt = 0 => (CallsOf("csv_tail") = {} /\ tail_str = << >>)
           /\ \A c \in CallsOf("csv_head") : Rows(c) = hh
           /\ \A c \in CallsOf("csv_tail") : Rows(c) = tt
           /\ (Submitted /\ future_head = "done" /\ hh > 0) => CallsOf("csv_head") # {}
           /\ (Submitted /\ future_tail = "done" /\ tt > 0) => CallsOf("csv_tail") # {}
           /\ (pc = "done" /\ status = "ok") =>
                 /\ tt = 0 => table.rows = head_str
                 /\ hh = 0 => table.rows = tail_str

C14_Witness ==
    /\ Submitted
    /\ pc = "done"
    /\ status = "ok"
    /\ args.n_rows_tail > 0
    /\ args.n_rows_head >= Available
    /\ n_rows_tail = 0
    /\ future_tail = "done"
    /\ CallsOf("csv_tail") = {}
    /\ CallsOf("csv_head") # {}
    /\ table.rows # << >>

DataFns == {"csv_head", "csv_tail", "csv_line_range"}
HeaderLine == args.skip_n_first_rows + 1
Beyond(s, line) == \A i \in 1..Len(s) : s[i] > line

(* C15: in every operation that returns a table the header is fetched if    *)
(* and only if header is true, always as the single physical line           *)
(* skip_n_first_rows+1; that line is never inside the data window, which    *)
(* then starts at skip_n_first_rows+2 or later, nor among the data lines    *)
(* returned; and it is fetched also when the data window is empty.          *)
C15_HeaderFetch ==
    /\ \A c \in CallsOf("csv_header") :
           args.header /\ Window(c) = <<HeaderLine, HeaderLine>>
    /\ (pc = "done" /\ status = "ok") =>
           /\ (CallsOf("csv_header") # {}) = args.header
           /\ table.columns = (IF args.header /\ file_lines >= HeaderLine
                               THEN <<HeaderLine>> ELSE << >>)
    /\ args.header =>
           /\ \A c \in calls : c.fn \in DataFns => Window(c)[1] >= HeaderLine + 1
           /\ Beyond(data_str, HeaderLine)
           /\ Beyond(head_str, HeaderLine)
           /\ Beyond(tail_str, HeaderLine)
           /\ Beyond(table.rows, HeaderLine)

C15_Witness ==
    /\ op = "read_csv_head"
    /\ pc = "done"
    /\ status = "ok"
    /\ args.header
    /\ args.n_rows <= 0
    /\ Available > 0
    /\ CallsOf("csv_header") # {}
    /\ CallsOf("csv_head") = {}
    /\ table.columns = <<HeaderLine>>
    /\ table.rows = << >>

(* read_csv_head and read_csv_tail as functions of their arguments, for a   *)
(* file that exists and subprocesses that do not fail on their own: the     *)
(* extraction commands they run and the table they return.                  *)
ReadWith(data, hdr, skip) ==
    LET h == IF hdr THEN csv_header(skip) ELSE NoCmd
    IN [cmds |-> data.cmds \cup h.cmds,
        table |-> parse_csv_content(h.out, data.out, hdr)]

read_csv_head(total, hdr, skip, rows) ==
    ReadWith(csv_head(total, hdr, skip, rows), hdr, skip)

read_csv_tail(total, hdr, skip, rows) ==
    ReadWith(csv_tail(total, hdr, skip, rows), hdr, skip)

Fetches == calls \ CallsOf("get_total_lines")
Returned == pc = "done" /\ status = "ok" /\ ~io_failed
SameAs(r) == Fetches = r.cmds /\ table = r.table

(* C16: read_csv_headtail degenerates to its parts: for every file length,  *)
(* header flag, skip_n_first_rows >= 0 and k, read_csv_headtail with        *)
(* n_rows_tail = 0 runs the same header and data extractions and returns    *)
(* the same table as read_csv_head with n_rows = k = n_rows_head does, and  *)
(* with n_rows_head = 0 the same as read_csv_tail with n_rows = k =         *)
(* n_rows_tail does.                                                        *)
C16_HeadTailDegenerates ==
    Returned =>
        /\ (op = "read_csv_headtail" /\ args.n_rows_tail = 0) =>
               SameAs(read_csv_head(file_lines, args.header, args.skip_n_first_rows,
                                    args.n_rows_head))
        /\ (op = "read_csv_headtail" /\ args.n_rows_head = 0) =>
               SameAs(read_csv_tail(file_lines, args.header, args.skip_n_first_rows,
                                    args.n_rows_tail))
        /\ op = "read_csv_head" =>
               SameAs(read_csv_head(file_lines, args.header, args.skip_n_first_rows,
                                    args.n_rows))
        /\ op = "read_csv_tail" =>
               SameAs(read_csv_tail(file_lines, args.header, args.skip_n_first_rows,
                                    args.n_rows))

C16_Witness ==
    /\ Returned
    /\ op = "read_csv_headtail"
    /\ args.n_rows_head = 0
    /\ args.n_rows_tail > 1
    /\ args.header
    /\ Len(table.rows) > 1
    /\ CallsOf("csv_tail") # {}
    /\ CallsOf("csv_head") = {}

====
